---- MODULE Spec2Model ----
(***************************************************************************)
(* Model of service-hub's two in-process protective layers:                *)
(*   app/core/cache.py       TTLCache    (TTL expiry, LRU eviction, disk)  *)
(*   app/core/rate_limit.py  RateLimiter (sliding window, per-tier limits) *)
(* Time is the value datetime.now() returns, in whole seconds.             *)
(***************************************************************************)
EXTENDS Integers, Sequences, FiniteSets, TLC

\* ------------------------------------------------------------------ bounds
MaxSize == 2          \* largest max_size a cache is constructed with
MaxTtl == 1           \* the ttl_seconds a cache is constructed with
MaxTime == 3          \* the clock stops advancing here
MaxGets == 2          \* get calls per run (caps hits + misses)
PersistMaxTime == 2   \* MaxTime of the runs with a durable store
PersistMaxGets == 1   \* MaxGets of the runs with a durable store
MaxRequests == 2      \* largest default max_requests a limiter is constructed with
MaxWindow == 2        \* the default window_seconds a limiter is constructed with
LimiterMaxTime == 2   \* MaxTime of the limiter's runs
MaxCalls == 4         \* is_allowed calls per run
CleanupMaxTime == 1   \* MaxTime of the runs with cleanup_old_clients, before any sleep
CleanupMaxSleeps == 1 \* hours slept per run with cleanup_old_clients
MaxAgeHours == 1      \* largest max_age_hours passed to cleanup_old_clients
CleanupMaxCalls == 2  \* MaxCalls of the runs with cleanup_old_clients
FlushMaxTime == 1     \* MaxTime of the runs around the periodic save
FlushMaxGets == 1     \* MaxGets of the runs around the periodic save
ThreadMaxTime == 1    \* MaxTime of the runs with several threads
ThreadMaxCalls == 3   \* calls begun per run with several threads
WritesMaxTime == 1    \* MaxTime of the runs that count the set calls
WritesMaxGets == 1    \* MaxGets of the runs that count the set calls
MaxWrites == 10       \* set calls per run that counts them
RequestMaxTime == 1   \* MaxTime of the runs of transcript requests
RequestMaxCalls == 2  \* MaxCalls of the runs of transcript requests
RequestMaxGets == 2   \* MaxGets of the runs of transcript requests

Keys == {"k1", "k2", "k3"}    \* cache keys (opaque strings)
Values == {"a", "b"}          \* cached payloads
PersistKeys == {"k1", "k2"}   \* the keys used in the runs with a durable store
Clients == {"c1", "c2"}       \* client ids
Tiers == {"free", "premium"}  \* the tiers callers pass
None == "None"                \* Python's None
Threads == {"t1", "t2"}       \* the threads that call into one instance

\* The modulus of the periodic save in TTLCache.set
SaveEvery == 10

\* timedelta(hours=1) in the clock's unit
SecondsPerHour == 3600

VARIABLES
    now,            \* datetime.now()
    \* ---- TTLCache fields
    ttl,            \* self.ttl (seconds)
    max_size,       \* self.max_size
    cache_dir,      \* self.cache_dir is set (TRUE) or None (FALSE)
    cache,          \* self._cache: OrderedDict, as a sequence of [key, value]
    timestamps,     \* self._timestamps: dict key -> datetime
    hits,           \* self.hits
    misses,         \* self.misses
    alive,          \* the instance exists (constructed, not yet finalized)
    \* ---- the durable store
    disk_cache,     \* cache.pkl: absent, corrupt or the pickled OrderedDict
    disk_meta,      \* cache_meta.json: absent, corrupt or [timestamps, hits, misses]
    \* ---- observation of the run (not program state)
    op,             \* the last call and what it returned
    written,        \* per key: what set() wrote on this instance and what became of it
    recency,        \* stored keys by the moment of their latest set or get hit, oldest first
    gets,           \* get calls since the last clear or construction
    flushed,        \* the finalized instance's last save wrote both artefacts
    \* ---- RateLimiter fields
    max_requests,   \* self.max_requests
    window,         \* self.window (seconds)
    limits_per_tier, \* self.limits_per_tier: dict tier -> <<max_requests, window_seconds>>
    requests,       \* self.requests: defaultdict client_id -> list of datetimes
    \* ---- observation of the limiter
    log,            \* per client: the is_allowed calls so far, as [at, tier, ok, oldest]
    \* ---- the threads calling into the shared instances
    threads,        \* per thread: the statement it is at and its local variables
    begun           \* per method: the calls begun so far (observation)

cacheVars == <<ttl, max_size, cache_dir, cache, timestamps, hits, misses, alive>>
diskVars == <<disk_cache, disk_meta>>
obsVars == <<op, written, recency, gets, flushed>>
limiterVars == <<max_requests, window, limits_per_tier, requests, log>>
threadVars == <<threads, begun>>
vars == <<now, cacheVars, diskVars, obsVars, limiterVars, threadVars>>

\* an artefact of the store: missing, unreadable, or holding data
Absent == [state |-> "absent", data |-> <<>>]
Corrupt == [state |-> "corrupt", data |-> <<>>]
Stored(d) == [state |-> "ok", data |-> d]

\* cache_meta.json's content; NoMeta stands where the file holds none
Meta(ts, h, m) == [timestamps |-> ts, hits |-> h, misses |-> m]
NoMeta == Meta(<<>>, 0, 0)
AbsentMeta == [state |-> "absent", data |-> NoMeta]
CorruptMeta == [state |-> "corrupt", data |-> NoMeta]

\* a cache_meta.json that json.load and datetime.fromisoformat accept but whose
\* timestamps carry a UTC offset: now - ts raises TypeError in _cleanup_expired
AwareMeta(d) == [state |-> "aware", data |-> d]

\* ------------------------------------------------- OrderedDict and dict
EmptyDict == [k \in {} |-> 0]

DictKeys(c) == {c[i].key : i \in DOMAIN c}

DictGet(c, k) == c[CHOOSE i \in DOMAIN c : c[i].key = k].value

\* OrderedDict.pop(k, None)
DictPop(c, k) == SelectSeq(c, LAMBDA e : e.key # k)

\* OrderedDict.__setitem__: an existing key keeps its position
DictSet(c, k, v) ==
    IF k \in DictKeys(c)
    THEN [i \in DOMAIN c |-> IF c[i].key = k THEN [key |-> k, value |-> v] ELSE c[i]]
    ELSE Append(c, [key |-> k, value |-> v])

MoveToEndForgotten(c, k) == c

\* OrderedDict.move_to_end(k)
MoveToEnd(c, k) == Append(DictPop(c, k), [key |-> k, value |-> DictGet(c, k)])

TsPopKeepsKey(ts, k) == ts

\* dict.pop(k, None) on self._timestamps
TsPop(ts, k) == [x \in DOMAIN ts \ {k} |-> ts[x]]

TsSet(ts, k, t) == [x \in DOMAIN ts \cup {k} |-> IF x = k THEN t ELSE ts[x]]

RECURSIVE PopAll(_, _)
PopAll(c, ks) ==
    IF ks = {} THEN c
    ELSE LET k == CHOOSE x \in ks : TRUE IN PopAll(DictPop(c, k), ks \ {k})

\* ------------------------------------------------------------- TTLCache
IsExpiredAtBoundary(ts, t) == t - ts >= ttl

\* now - ts > self.ttl
IsExpired(ts, t) == t - ts > ttl

\* _cleanup_expired on (c, ts) at time t: the swept pair
CleanupExpired(c, ts, t) ==
    LET expired == {k \in DOMAIN ts : IsExpired(ts[k], t)}
    IN  [cache |-> PopAll(c, expired),
         timestamps |-> [k \in DOMAIN ts \ expired |-> ts[k]]]

\* get's test after the sweep: key in self._cache and key in self._timestamps
IsHit(c, ts, k) == k \in DictKeys(c) /\ k \in DOMAIN ts

MustEvictPresent(c, k) == Len(c) >= max_size

MustEvictOffByOne(c, k) == Len(c) > max_size /\ k \notin DictKeys(c)

\* set's eviction test: len(self._cache) >= self.max_size and key not in self._cache
MustEvict(c, k) == Len(c) >= max_size /\ k \notin DictKeys(c)

OldestKeyExpiredFirst(c) ==
    LET expired == {i \in DOMAIN c :
                       c[i].key \in DOMAIN timestamps /\ IsExpired(timestamps[c[i].key], now)}
    IN  IF expired = {} THEN c[1].key
        ELSE c[CHOOSE i \in expired : \A j \in expired : i <= j].key

\* next(iter(self._cache))
OldestKey(c) == c[1].key

\* set's flush test: len(self._cache) % 10 == 0
MustSave(c) == Len(c) % SaveEvery = 0

CountGetHitsOnly(hit, h, m) == IF hit THEN <<h + 1, m>> ELSE <<h, m>>

\* get's counter update: <<hits, misses>> after the call
CountGet(hit, h, m) == IF hit THEN <<h + 1, m>> ELSE <<h, m + 1>>

TimestampsAfterGetRefreshed(ts, k, t, hit) == IF hit THEN TsSet(ts, k, t) ELSE ts

\* self._timestamps after get(k) at time t, from the swept timestamps ts: a
\* hit runs move_to_end on _cache and writes no timestamp
TimestampsAfterGet(ts, k, t, hit) == ts

ClearedKeepsCounters ==
    [cache |-> <<>>, timestamps |-> EmptyDict, hits |-> hits, misses |-> misses]

\* what clear leaves: entries, timestamps, hits, misses
Cleared == [cache |-> <<>>, timestamps |-> EmptyDict, hits |-> 0, misses |-> 0]

\* ----------------------------------------------------------- persistence
\* The outcomes of _save_to_disk: every exception is swallowed.
\*   ok          both artefacts written
\*   open_cache  open(cache_file, "wb") raised: nothing written
\*   dump_cache  pickle.dump raised after the file was truncated
\*   open_meta   cache.pkl written, open(meta_file, "w") raised
\*   dump_meta   cache.pkl written, json.dump raised after truncation
SaveOutcomes == {"ok", "open_cache", "dump_cache", "open_meta", "dump_meta"}

SavedCache(outcome, c) ==
    CASE outcome = "open_cache" -> disk_cache
      [] outcome = "dump_cache" -> Corrupt
      [] OTHER -> Stored(c)

SavedMeta(outcome, ts, h, m) ==
    CASE outcome = "ok" -> Stored(Meta(ts, h, m))
      [] outcome = "dump_meta" -> CorruptMeta
      [] OTHER -> disk_meta

\* _save_to_disk of the state (c, ts, h, m): the new store
SaveToDisk(outcome, c, ts, h, m) ==
    IF cache_dir
    THEN /\ disk_cache' = SavedCache(outcome, c)
         /\ disk_meta' = SavedMeta(outcome, ts, h, m)
    ELSE /\ outcome = "ok"
         /\ UNCHANGED diskVars

SaveResultPropagates(outcome) == IF outcome = "ok" THEN None ELSE "OSError"

\* what the caller of _save_to_disk sees: `except Exception: pass` turns every
\* outcome into a normal return
SaveResult(outcome) == None

\* ----------------------------------------------------------- observation
\* a call of the cache: its name, its key and the value it returned (None
\* when it returns nothing, the exception's name when it raised)
Call(name, k, r) ==
    [name |-> name, key |-> k, tier |-> None, result |-> r, ok |-> FALSE, stats |-> <<>>]

\* stats() or get_stats(): the numbers of the returned dict
StatsCall(name, k, tier, numbers) ==
    [name |-> name, key |-> k, tier |-> tier, result |-> None, ok |-> FALSE,
     stats |-> numbers]

\* is_allowed(c, tier) and its answer
LimiterCall(c, tier, ok) ==
    [name |-> "is_allowed", key |-> c, tier |-> tier, result |-> None, ok |-> ok,
     stats |-> <<>>]

\* written[k]: "never" set on this instance, "live" (set, and not evicted or
\* cleared since, with the value and the time of the latest set), "evicted"
\* (by a later set) or "cleared"
Fate(status) == [status |-> status, value |-> None, at |-> 0]

\* an evicted key keeps the time of the set that was evicted
Evicted(w) == [status |-> "evicted", value |-> None, at |-> w.at]

WrittenAt(v, t) == [status |-> "live", value |-> v, at |-> t]

Live(w) == w.status = "live"

\* recency after a use of k; Kept drops the keys that are no longer stored
Touch(r, k) == Append(SelectSeq(r, LAMBDA x : x # k), k)

Kept(r, c) == SelectSeq(r, LAMBDA x : x \in DictKeys(c))

\* ---------------------------------------------------------------- actions
\* datetime.now() advances
Tick(limit) ==
    /\ now < limit
    /\ now' = now + 1
    /\ op' = Call("tick", None, None)
    /\ UNCHANGED <<cacheVars, diskVars, written, recency, gets, flushed>>
    /\ UNCHANGED limiterVars
    /\ UNCHANGED threadVars

\* TTLCache.get(k): what it does to the cache and to the observation of the run
GetReturns(k, limit) ==
    LET swept == CleanupExpired(cache, timestamps, now)
        hit == IsHit(swept.cache, swept.timestamps, k)
        counts == CountGet(hit, hits, misses)
    IN  /\ alive
        /\ hits + misses < limit
        /\ timestamps' = TimestampsAfterGet(swept.timestamps, k, now, hit)
        /\ hits' = counts[1]
        /\ misses' = counts[2]
        /\ cache' = IF hit THEN MoveToEnd(swept.cache, k) ELSE swept.cache
        /\ op' = Call("get", k, IF hit THEN DictGet(swept.cache, k) ELSE None)
        /\ recency' = Kept(IF hit THEN Touch(recency, k) ELSE recency, cache')
        /\ gets' = gets + 1
        /\ UNCHANGED <<now, ttl, max_size, cache_dir, alive, diskVars, written, flushed>>
        /\ UNCHANGED limiterVars

\* TTLCache.get(k), called from the only thread there is
Get(k, limit) == GetReturns(k, limit) /\ UNCHANGED threadVars

\* TTLCache.set(k, v), the path that returns: what it does to the cache, to
\* the store and to the observation of the run
SetReturns(k, v) ==
    LET evict == MustEvict(cache, k)
        oldest == OldestKey(cache)
        c1 == IF evict THEN DictPop(cache, oldest) ELSE cache
        ts1 == IF evict THEN TsPop(timestamps, oldest) ELSE timestamps
        c2 == MoveToEnd(DictSet(c1, k, v), k)
        ts2 == TsSet(ts1, k, now)
    IN  /\ alive
        /\ evict => oldest \in DOMAIN timestamps
        /\ cache' = c2
        /\ timestamps' = ts2
        /\ \E o \in SaveOutcomes :
              /\ IF MustSave(c2)
                 THEN SaveToDisk(o, c2, ts2, hits, misses)
                 ELSE o = "ok" /\ UNCHANGED diskVars
              /\ op' = Call("set", k, SaveResult(o))
        /\ written' = [x \in Keys |->
                         IF x = k THEN WrittenAt(v, now)
                         ELSE IF evict /\ x = oldest THEN Evicted(written[x])
                         ELSE written[x]]
        /\ recency' = Kept(Touch(recency, k), cache')
        /\ UNCHANGED <<now, ttl, max_size, cache_dir, hits, misses, alive, gets, flushed>>
        /\ UNCHANGED limiterVars

\* TTLCache.set(k, v) returning, called from the only thread there is
SetOk(k, v) == SetReturns(k, v) /\ UNCHANGED threadVars

\* TTLCache.set(k, v) returning, counted in begun
SetCounted(k, v, limit) ==
    /\ begun["set"] < limit
    /\ SetReturns(k, v)
    /\ begun' = [begun EXCEPT !["set"] = @ + 1]
    /\ UNCHANGED threads

\* TTLCache.set(k, v), the path that raises: self._timestamps.pop(oldest_key)
\* has no default, so a key of _cache that has no timestamp raises KeyError
\* after _cache.pop(oldest_key) has run.
SetRaise(k, v) ==
    /\ alive
    /\ MustEvict(cache, k)
    /\ OldestKey(cache) \notin DOMAIN timestamps
    /\ cache' = DictPop(cache, OldestKey(cache))
    /\ op' = Call("set", k, "KeyError")
    /\ recency' = Kept(recency, cache')
    /\ UNCHANGED <<now, ttl, max_size, cache_dir, timestamps, hits, misses, alive,
                   diskVars, written, gets, flushed>>
    /\ UNCHANGED limiterVars
    /\ UNCHANGED threadVars

\* TTLCache.clear(), observed as the call `name`
ClearCalled(name) ==
    /\ alive
    /\ cache' = Cleared.cache
    /\ timestamps' = Cleared.timestamps
    /\ hits' = Cleared.hits
    /\ misses' = Cleared.misses
    /\ \E o \in SaveOutcomes :
          /\ SaveToDisk(o, cache', timestamps', hits', misses')
          /\ op' = Call(name, None, SaveResult(o))
    /\ written' = [x \in Keys |->
                     IF written[x].status = "never" THEN written[x] ELSE Fate("cleared")]
    /\ recency' = <<>>
    /\ gets' = 0
    /\ UNCHANGED <<now, ttl, max_size, cache_dir, flushed>>
    /\ UNCHANGED limiterVars
    /\ UNCHANGED threadVars

\* TTLCache.clear()
Clear == ClearCalled("clear") /\ UNCHANGED alive

\* lifespan after its yield: app.state.cache.clear() is all the shutdown does
\* to the cache, and the process ends
Shutdown == ClearCalled("shutdown") /\ alive' = FALSE

\* TTLCache.stats()
Stats ==
    LET swept == CleanupExpired(cache, timestamps, now)
    IN  /\ alive
        /\ cache' = swept.cache
        /\ timestamps' = swept.timestamps
        /\ op' = StatsCall("stats", None, None,
                            <<Len(swept.cache), max_size, hits, misses, ttl>>)
        /\ recency' = Kept(recency, cache')
        /\ UNCHANGED <<now, ttl, max_size, cache_dir, hits, misses, alive,
                       diskVars, written, gets, flushed>>
        /\ UNCHANGED limiterVars
        /\ UNCHANGED threadVars

\* ------------------------------------------------------------ RateLimiter
NoTiers == [t \in {} |-> <<0, 0>>]

NoRequests == [c \in {} |-> <<>>]

\* limits_per_tier = {"premium": (m, w)}
PremiumTier(m, w) == [t \in {"premium"} |-> <<m, w>>]

PolicyDefaultOnly(tier) == [max_requests |-> max_requests, window |-> window]

\* the tier's entry of limits_per_tier, else the defaults
Policy(tier) ==
    IF tier \in DOMAIN limits_per_tier
    THEN [max_requests |-> limits_per_tier[tier][1], window |-> limits_per_tier[tier][2]]
    ELSE [max_requests |-> max_requests, window |-> window]

\* self.requests[client_id] on the defaultdict: a missing record reads as []
Record(c) == IF c \in DOMAIN requests THEN requests[c] ELSE <<>>

\* self.requests[client_id] = value
PutRecord(c, rec) == [x \in DOMAIN requests \cup {c} |-> IF x = c THEN rec ELSE requests[x]]

InWindowFixedBucket(ts, t, w) == ts \div w = t \div w

InWindowInclusive(ts, t, w) == t - ts <= w

\* now - ts < window
InWindow(ts, t, w) == t - ts < w

\* [ts for ts in self.requests[client_id] if now - ts < window]
Prune(rec, t, w) == SelectSeq(rec, LAMBDA ts : InWindow(ts, t, w))

UnderLimitOffByOne(n, m) == n <= m

\* len(self.requests[client_id]) < max_requests
UnderLimit(n, m) == n < m

RecordedAlways(rec, t, ok) == Append(rec, t)

\* the record after the check: now is appended only when the call is admitted
Recorded(rec, t, ok) == IF ok THEN Append(rec, t) ELSE rec

RECURSIVE TotalCalls(_)
TotalCalls(cs) ==
    IF cs = {} THEN 0
    ELSE LET c == CHOOSE x \in cs : TRUE IN Len(log[c]) + TotalCalls(cs \ {c})

\* a log entry: the call's time, tier and answer, and the oldest timestamp
\* that was inside the window when the call was made (now if there was none)
Checked(tier, ok, pruned) ==
    [at |-> now, tier |-> tier, ok |-> ok,
     oldest |-> IF pruned = <<>> THEN now ELSE pruned[1]]

CacheIdle == UNCHANGED <<cacheVars, diskVars, written, recency, gets, flushed>>

\* RateLimiter.is_allowed(c, tier): what it does to the limiter and to the
\* observation of the run
IsAllowedReturns(c, tier) ==
    LET pol == Policy(tier)
        pruned == Prune(Record(c), now, pol.window)
        ok == UnderLimit(Len(pruned), pol.max_requests)
    IN  /\ TotalCalls(Clients) < MaxCalls
        /\ requests' = PutRecord(c, Recorded(pruned, now, ok))
        /\ op' = LimiterCall(c, tier, ok)
        /\ log' = [log EXCEPT ![c] = Append(@, Checked(tier, ok, pruned))]
        /\ UNCHANGED <<now, max_requests, window, limits_per_tier>>
        /\ CacheIdle

\* RateLimiter.is_allowed(c, tier), called from the only thread there is
IsAllowed(c, tier) == IsAllowedReturns(c, tier) /\ UNCHANGED threadVars

\* RateLimiter.get_stats(c, tier): reading self.requests[client_id] creates
\* the record of a client that has none
GetStats(c, tier) ==
    LET pol == Policy(tier)
        active == Prune(Record(c), now, pol.window)
        remaining == IF pol.max_requests - Len(active) > 0
                     THEN pol.max_requests - Len(active) ELSE 0
    IN  /\ requests' = PutRecord(c, Record(c))
        /\ op' = StatsCall("get_stats", c, tier,
                            <<Len(active), pol.max_requests, pol.window, remaining>>)
        /\ UNCHANGED <<now, max_requests, window, limits_per_tier, log>>
        /\ CacheIdle
        /\ UNCHANGED threadVars

\* max(timestamps) of a non-empty record
Newest(rec) == CHOOSE t \in {rec[i] : i \in DOMAIN rec} : \A i \in DOMAIN rec : rec[i] <= t

InactiveAlways(rec, cutoff) == TRUE

InactiveInclusive(rec, cutoff) == rec = <<>> \/ Newest(rec) <= cutoff

\* not timestamps or max(timestamps) < cutoff
Inactive(rec, cutoff) == rec = <<>> \/ Newest(rec) < cutoff

\* RateLimiter.cleanup_old_clients(h)
CleanupOldClients(h) ==
    LET cutoff == now - h * SecondsPerHour
        inactive_clients == {c \in DOMAIN requests : Inactive(requests[c], cutoff)}
    IN  /\ requests' = [c \in DOMAIN requests \ inactive_clients |-> requests[c]]
        /\ op' = StatsCall("cleanup_old_clients", None, None, <<h>>)
        /\ UNCHANGED <<now, max_requests, window, limits_per_tier, log>>
        /\ CacheIdle
        /\ UNCHANGED threadVars

\* the process is idle for an hour
Sleep(limit) ==
    /\ now \div SecondsPerHour < limit
    /\ now' = now + SecondsPerHour
    /\ op' = Call("sleep", None, None)
    /\ UNCHANGED limiterVars
    /\ UNCHANGED threadVars
    /\ CacheIdle

\* the limiter of the runs that exercise the cache only: constructed, never called
LimiterIdle ==
    /\ max_requests = MaxRequests
    /\ window = MaxWindow
    /\ limits_per_tier = NoTiers
    /\ requests = NoRequests
    /\ log = [c \in Clients |-> <<>>]

\* ---------------------------------------------------------------- threads
\* a thread's position in the method it runs and that method's locals:
\*   key, value, tier  the call's arguments (key is the client id in the limiter)
\*   at                the call's now = datetime.now()
\*   n                 a number the thread has read (a counter, a size)
\*   oldest            set's oldest_key
\*   keys              cleanup_old_clients' inactive_clients
\*   rec               the list is_allowed built by pruning
\*   raised            the exception the thread's last call ended with, or None
IdleThread ==
    [pc |-> "idle", key |-> None, value |-> None, tier |-> None, at |-> 0, n |-> 0,
     oldest |-> None, keys |-> {}, rec |-> <<>>, raised |-> None]

Methods == {"get", "set", "clear", "stats", "is_allowed", "cleanup_old_clients"}

NoCalls == [m \in Methods |-> 0]

RECURSIVE TotalBegun(_)
TotalBegun(ms) ==
    IF ms = {} THEN 0
    ELSE LET m == CHOOSE x \in ms : TRUE IN begun[m] + TotalBegun(ms \ {m})

\* no thread has called yet
ThreadsIdle ==
    /\ threads = [t \in Threads |-> IdleThread]
    /\ begun = NoCalls

\* thread t enters method m
Enter(t, m) ==
    /\ threads[t].pc = "idle"
    /\ TotalBegun(Methods) < ThreadMaxCalls
    /\ begun' = [begun EXCEPT ![m] = @ + 1]

\* thread t is at statement pc, inside a call
At(t, pc) == threads[t].pc = pc /\ UNCHANGED begun

\* thread t's call returns
Return(t) == threads' = [threads EXCEPT ![t] = IdleThread]

\* thread t's call ends with exception e
Raise(t, e) == threads' = [threads EXCEPT ![t] = [IdleThread EXCEPT !.raised = e]]

\* thread t moves on to statement pc with its locals as in local
Goto(t, pc, local) == threads' = [threads EXCEPT ![t] = [local EXCEPT !.pc = pc]]

\* ------------------------------------------------------- specifications
NeverWritten == [k \in Keys |-> Fate("never")]

\* TTLCache(ttl_seconds, max_size, cache_dir=None): a cache created empty
Init ==
    /\ now = 0
    /\ ttl = MaxTtl
    /\ max_size \in 1..MaxSize
    /\ cache_dir = FALSE
    /\ cache = <<>>
    /\ timestamps = EmptyDict
    /\ hits = 0
    /\ misses = 0
    /\ alive = TRUE
    /\ disk_cache = Absent
    /\ disk_meta = AbsentMeta
    /\ op = Call("init", None, None)
    /\ written = NeverWritten
    /\ recency = <<>>
    /\ gets = 0
    /\ flushed = FALSE
    /\ LimiterIdle
    /\ ThreadsIdle

Next ==
    \/ Tick(MaxTime)
    \/ \E k \in Keys : Get(k, MaxGets)
    \/ \E k \in Keys, v \in Values : SetOk(k, v)
    \/ Clear
    \/ Stats

Spec == Init /\ [][Next]_vars

LoadFromDiskNothing(t) == Cleared

LoadFromDiskDropsCounters(t) ==
    IF disk_cache.state # "ok" \/ disk_meta.state # "ok"
    THEN Cleared
    ELSE LET swept == CleanupExpired(disk_cache.data, disk_meta.data.timestamps, t)
         IN  [cache |-> swept.cache, timestamps |-> swept.timestamps,
              hits |-> 0, misses |-> 0]

\* _load_from_disk at time t: the loaded entries, timestamps and counters.
\* Nothing is loaded unless both files exist; any exception while reading
\* either leaves an empty cache (the counters are assigned last, after both
\* reads succeeded). An exception in the sweep that follows comes after the
\* counters were assigned, and the handler empties the two dicts only.
LoadFromDisk(t) ==
    IF disk_cache.state = "absent" \/ disk_meta.state = "absent"
    THEN Cleared
    ELSE IF disk_cache.state = "corrupt" \/ disk_meta.state = "corrupt"
    THEN Cleared
    ELSE IF disk_meta.state = "aware" /\ DOMAIN disk_meta.data.timestamps # {}
    THEN [cache |-> <<>>, timestamps |-> EmptyDict,
          hits |-> disk_meta.data.hits, misses |-> disk_meta.data.misses]
    ELSE LET swept == CleanupExpired(disk_cache.data, disk_meta.data.timestamps, t)
         IN  [cache |-> swept.cache, timestamps |-> swept.timestamps,
              hits |-> disk_meta.data.hits, misses |-> disk_meta.data.misses]

\* TTLCache.__del__: the instance is finalized and saves itself
Del ==
    /\ alive
    /\ \E o \in SaveOutcomes :
          /\ SaveToDisk(o, cache, timestamps, hits, misses)
          /\ flushed' = (o = "ok")
          /\ op' = Call("del", None, SaveResult(o))
    /\ alive' = FALSE
    /\ UNCHANGED <<now, ttl, max_size, cache_dir, cache, timestamps, hits, misses,
                   written, recency, gets>>
    /\ UNCHANGED limiterVars
    /\ UNCHANGED threadVars

\* TTLCache.__init__ over the same store, in a run observed from w on
ConstructOver(w) ==
    LET loaded == IF cache_dir THEN LoadFromDisk(now) ELSE Cleared
    IN  /\ cache' = loaded.cache
        /\ timestamps' = loaded.timestamps
        /\ hits' = loaded.hits
        /\ misses' = loaded.misses
        /\ alive' = TRUE
        /\ op' = Call("init", None, None)
        /\ written' = w
        /\ recency' = <<>>
        /\ gets' = 0
        /\ flushed' = FALSE
        /\ UNCHANGED <<now, ttl, max_size, cache_dir, diskVars>>
        /\ UNCHANGED limiterVars
        /\ UNCHANGED threadVars

\* TTLCache.__init__ over the same store: a restart. The instance it replaces
\* was finalized before (alive = FALSE) or is abandoned as it stands (a crash).
Construct == ConstructOver(NeverWritten)

\* the keys the abandoned instance had evicted and not set again keep that
\* fate in the observation of the instance that follows
EvictedBefore ==
    [x \in Keys |-> IF written[x].status = "evicted" THEN written[x] ELSE Fate("never")]

\* the process is killed, nothing is saved, and TTLCache.__init__ runs over
\* the store as the killed process left it
Crash == alive /\ ConstructOver(EvictedBefore)

\* TTLCache(ttl_seconds, max_size, cache_dir) over an empty store
InitPersist ==
    /\ now = 0
    /\ ttl = MaxTtl
    /\ max_size = 1
    /\ cache_dir = TRUE
    /\ cache = <<>>
    /\ timestamps = EmptyDict
    /\ hits = 0
    /\ misses = 0
    /\ alive = TRUE
    /\ disk_cache = Absent
    /\ disk_meta = AbsentMeta
    /\ op = Call("init", None, None)
    /\ written = NeverWritten
    /\ recency = <<>>
    /\ gets = 0
    /\ flushed = FALSE
    /\ LimiterIdle
    /\ ThreadsIdle

NextPersist ==
    \/ Tick(PersistMaxTime)
    \/ \E k \in PersistKeys : Get(k, PersistMaxGets)
    \/ \E k \in PersistKeys, v \in Values : SetOk(k, v)
    \/ \E k \in PersistKeys, v \in Values : SetRaise(k, v)
    \/ Clear
    \/ Del
    \/ Construct

SpecPersist == InitPersist /\ [][NextPersist]_vars

\* lifespan before its yield: app.state.cache = TTLCache(...) in a new process
Startup == ~alive /\ Construct

\* the application over its cache directory, from start to graceful shutdown
\* and start again
NextLifespan ==
    \/ Tick(PersistMaxTime)
    \/ \E k \in PersistKeys : Get(k, PersistMaxGets)
    \/ \E k \in PersistKeys, v \in Values : SetOk(k, v)
    \/ Shutdown
    \/ Startup

SpecLifespan == InitPersist /\ [][NextLifespan]_vars

\* a cache over its directory, through finalization, restart and crash
NextCrash ==
    \/ Tick(PersistMaxTime)
    \/ \E k \in PersistKeys : Get(k, PersistMaxGets)
    \/ \E k \in PersistKeys, v \in Values : SetOk(k, v)
    \/ Del
    \/ Startup
    \/ Crash

SpecCrash == InitPersist /\ [][NextCrash]_vars

\* what a process may find in cache_dir when it starts: nothing, files left by
\* an earlier run, truncated files, files written by something else
FoundCache == {Absent, Corrupt, Stored(<<[key |-> "k1", value |-> "a"]>>)}

FoundMeta ==
    LET d == Meta([k \in {"k1"} |-> 0], 1, 1)
    IN  {AbsentMeta, CorruptMeta, Stored(d), AwareMeta(d)}

\* before TTLCache(ttl_seconds, max_size, cache_dir) runs over a store found
\* as it is
InitLoad ==
    /\ now = 0
    /\ ttl = MaxTtl
    /\ max_size = 1
    /\ cache_dir = TRUE
    /\ cache = <<>>
    /\ timestamps = EmptyDict
    /\ hits = 0
    /\ misses = 0
    /\ alive = FALSE
    /\ disk_cache \in FoundCache
    /\ disk_meta \in FoundMeta
    /\ op = Call("start", None, None)
    /\ written = NeverWritten
    /\ recency = <<>>
    /\ gets = 0
    /\ flushed = FALSE
    /\ LimiterIdle
    /\ ThreadsIdle

SpecLoad == InitLoad /\ [][NextPersist]_vars

\* before TTLCache(ttl_seconds, 1, cache_dir) runs over the store an instance
\* with max_size 2 left at time 0, holding k1 and k2
InitResized ==
    /\ now = 0
    /\ ttl = MaxTtl
    /\ max_size = 1
    /\ cache_dir = TRUE
    /\ cache = <<>>
    /\ timestamps = EmptyDict
    /\ hits = 0
    /\ misses = 0
    /\ alive = FALSE
    /\ disk_cache = Stored(<<[key |-> "k1", value |-> "a"], [key |-> "k2", value |-> "a"]>>)
    /\ disk_meta = Stored(Meta([k \in PersistKeys |-> 0], 0, 0))
    /\ op = Call("start", None, None)
    /\ written = NeverWritten
    /\ recency = <<>>
    /\ gets = 0
    /\ flushed = FALSE
    /\ LimiterIdle
    /\ ThreadsIdle

SpecResized == InitResized /\ [][NextPersist]_vars

\* the keys of the entries a cache holds one set before its periodic save
Fillers == <<"f1", "f2", "f3", "f4", "f5", "f6", "f7", "f8", "f9">>

\* TTLCache(ttl_seconds, SaveEvery, cache_dir) over an empty store, after
\* set(f, "a") for each filler key at time 0: no set has saved yet
InitFlush ==
    /\ now = 0
    /\ ttl = MaxTtl
    /\ max_size = SaveEvery
    /\ cache_dir = TRUE
    /\ cache = [i \in 1..(SaveEvery - 1) |-> [key |-> Fillers[i], value |-> "a"]]
    /\ timestamps = [k \in {Fillers[i] : i \in 1..(SaveEvery - 1)} |-> 0]
    /\ hits = 0
    /\ misses = 0
    /\ alive = TRUE
    /\ disk_cache = Absent
    /\ disk_meta = AbsentMeta
    /\ op = Call("set", Fillers[SaveEvery - 1], None)
    /\ written = NeverWritten
    /\ recency = [i \in 1..(SaveEvery - 1) |-> Fillers[i]]
    /\ gets = 0
    /\ flushed = FALSE
    /\ LimiterIdle
    /\ ThreadsIdle

NextFlush ==
    \/ Tick(FlushMaxTime)
    \/ \E k \in PersistKeys : Get(k, FlushMaxGets)
    \/ \E k \in PersistKeys : SetOk(k, "a")
    \/ Clear
    \/ Del

SpecFlush == InitFlush /\ [][NextFlush]_vars

\* TTLCache(ttl_seconds, max_size, cache_dir) over an empty store, for the
\* runs that count the set calls
InitWrites ==
    /\ now = 0
    /\ ttl = MaxTtl
    /\ max_size \in 1..MaxSize
    /\ cache_dir = TRUE
    /\ cache = <<>>
    /\ timestamps = EmptyDict
    /\ hits = 0
    /\ misses = 0
    /\ alive = TRUE
    /\ disk_cache = Absent
    /\ disk_meta = AbsentMeta
    /\ op = Call("init", None, None)
    /\ written = NeverWritten
    /\ recency = <<>>
    /\ gets = 0
    /\ flushed = FALSE
    /\ LimiterIdle
    /\ ThreadsIdle

NextWrites ==
    \/ Tick(WritesMaxTime)
    \/ \E k \in PersistKeys : Get(k, WritesMaxGets)
    \/ \E k \in PersistKeys : SetCounted(k, "a", MaxWrites)

SpecWrites == InitWrites /\ [][NextWrites]_vars

\* RateLimiter(max_requests, window_seconds, limits_per_tier), beside a cache
\* that is never called
InitLimiter ==
    /\ now = 0
    /\ ttl = MaxTtl
    /\ max_size = MaxSize
    /\ cache_dir = FALSE
    /\ cache = <<>>
    /\ timestamps = EmptyDict
    /\ hits = 0
    /\ misses = 0
    /\ alive = TRUE
    /\ disk_cache = Absent
    /\ disk_meta = AbsentMeta
    /\ op = Call("init", None, None)
    /\ written = NeverWritten
    /\ recency = <<>>
    /\ gets = 0
    /\ flushed = FALSE
    /\ max_requests \in 1..MaxRequests
    /\ window = MaxWindow
    /\ limits_per_tier \in {NoTiers, PremiumTier(max_requests + 1, window + 1)}
    /\ requests = NoRequests
    /\ log = [c \in Clients |-> <<>>]
    /\ ThreadsIdle

NextLimiter ==
    \/ Tick(LimiterMaxTime)
    \/ \E c \in Clients, tier \in Tiers : IsAllowed(c, tier)
    \/ \E c \in Clients, tier \in Tiers : GetStats(c, tier)

SpecLimiter == InitLimiter /\ [][NextLimiter]_vars

\* the limiter with its idle-client sweep, over hours
NextCleanup ==
    \/ Tick(CleanupMaxTime)
    \/ Sleep(CleanupMaxSleeps)
    \/ \E c \in Clients, tier \in Tiers :
          TotalCalls(Clients) < CleanupMaxCalls /\ IsAllowed(c, tier)
    \/ \E c \in Clients, tier \in Tiers : GetStats(c, tier)
    \/ \E h \in 0..MaxAgeHours : CleanupOldClients(h)

SpecCleanup == InitLimiter /\ [][NextCleanup]_vars

\* ------------------------------------------- TTLCache called from threads
\* ------------------------------------------------- a transcript request
\* POST /youtube/transcript handled by t: the dependency check_rate_limit,
\* then the endpoint's TranscriptService(cache).get_transcript. t keeps the
\* request's cache key in key (None when extract_video_id finds no video id)
\* and the fetched transcript in value.
AdmitsAlways(ok) == TRUE

\* check_rate_limit: `if not rate_limiter.is_allowed(...)` raises
\* HTTPException(429), otherwise the endpoint runs
Admits(ok) == ok

CachedAlways(r) == TRUE

\* get_transcript: `if cached:` on what cache.get returned
Cached(r) == r # None

\* what api.fetch gives: a transcript or one of the exceptions get_transcript
\* turns into an error response
Fetched == {"a", "TranscriptsDisabled"}

FetchedAlways(r) == TRUE

\* the fetch returned (the try block goes on to build and cache the result)
FetchSucceeded(r) == r \in Values

\* check_rate_limit for client c of tier `tier`, on a request for key k
RequestCheck(t, c, tier, k, limit) ==
    /\ At(t, "idle")
    /\ TotalCalls(Clients) < limit
    /\ IsAllowedReturns(c, tier)
    /\ IF Admits(op'.ok)
       THEN Goto(t, "endpoint", [IdleThread EXCEPT !.key = k, !.tier = tier])
       ELSE Raise(t, "HTTPException")

\* check_rate_limit with the master key (api_key.id == -1): no limiter call
RequestMaster(t, k) ==
    /\ At(t, "idle")
    /\ Goto(t, "endpoint", [IdleThread EXCEPT !.key = k, !.tier = "admin"])
    /\ op' = Call("master", k, None)
    /\ UNCHANGED <<now, limiterVars>>
    /\ CacheIdle

\* get_transcript: extract_video_id found nothing, an error response is returned
RequestInvalid(t) ==
    /\ At(t, "endpoint")
    /\ threads[t].key = None
    /\ Return(t)
    /\ op' = Call("invalid", None, None)
    /\ UNCHANGED <<now, limiterVars>>
    /\ CacheIdle

\* get_transcript: cached = self.cache.get(cache_key); a hit is returned
RequestGet(t, limit) ==
    /\ At(t, "endpoint")
    /\ threads[t].key # None
    /\ GetReturns(threads[t].key, limit)
    /\ IF Cached(op'.result) THEN Return(t) ELSE Goto(t, "fetch", threads[t])

\* get_transcript: api.fetch(video_id, languages) and the formatting
RequestFetch(t) ==
    /\ At(t, "fetch")
    /\ \E r \in Fetched :
          /\ op' = Call("fetch", threads[t].key, r)
          /\ IF FetchSucceeded(r)
             THEN Goto(t, "store", [threads[t] EXCEPT !.value = r])
             ELSE Return(t)
    /\ UNCHANGED <<now, limiterVars>>
    /\ CacheIdle

\* get_transcript: self.cache.set(cache_key, result.model_dump(...)); return result
RequestSet(t) ==
    /\ At(t, "store")
    /\ SetReturns(threads[t].key, threads[t].value)
    /\ Return(t)

\* the cache keys of the requests made: one video, or no video id at all
RequestKeys == {"k1", None}

NextRequest ==
    \/ Tick(RequestMaxTime)
    \/ \E t \in Threads, k \in RequestKeys :
          RequestCheck(t, "c1", "free", k, RequestMaxCalls)
    \/ \E t \in Threads, k \in RequestKeys : RequestMaster(t, k)
    \/ \E t \in Threads : RequestInvalid(t)
    \/ \E t \in Threads : RequestGet(t, RequestMaxGets)
    \/ \E t \in Threads : RequestFetch(t)
    \/ \E t \in Threads : RequestSet(t)

SpecRequest == InitLimiter /\ [][NextRequest]_vars

\* The methods take no lock: a thread can be preempted between any two
\* statements below (each statement is one action; the sweep of
\* _cleanup_expired and the membership test of get are taken as one).
CacheThreadFrame ==
    UNCHANGED <<now, ttl, max_size, cache_dir, alive, diskVars, obsVars, limiterVars>>

\* get: self._cleanup_expired(); if key in self._cache and key in self._timestamps
GetEnter(t, k) ==
    LET swept == CleanupExpired(cache, timestamps, now)
        hit == IsHit(swept.cache, swept.timestamps, k)
    IN  /\ Enter(t, "get")
        /\ cache' = swept.cache
        /\ timestamps' = swept.timestamps
        /\ Goto(t, IF hit THEN "get_hit" ELSE "get_miss", [IdleThread EXCEPT !.key = k])
        /\ UNCHANGED <<hits, misses>>
        /\ CacheThreadFrame

\* get: self.hits += 1 and self.misses += 1, the read of the counter
GetLoadCounter(t) ==
    /\ \/ At(t, "get_hit") /\ Goto(t, "get_hit_store", [threads[t] EXCEPT !.n = hits])
       \/ At(t, "get_miss") /\ Goto(t, "get_miss_store", [threads[t] EXCEPT !.n = misses])
    /\ UNCHANGED <<cache, timestamps, hits, misses>>
    /\ CacheThreadFrame

\* get: self.hits += 1 and self.misses += 1, the write of the counter; a miss
\* returns None after it
GetStoreCounter(t) ==
    /\ \/ /\ At(t, "get_hit_store")
          /\ hits' = CountGet(TRUE, threads[t].n, misses)[1]
          /\ Goto(t, "get_move_to_end", threads[t])
          /\ UNCHANGED misses
       \/ /\ At(t, "get_miss_store")
          /\ misses' = CountGet(FALSE, hits, threads[t].n)[2]
          /\ Return(t)
          /\ UNCHANGED hits
    /\ UNCHANGED <<cache, timestamps>>
    /\ CacheThreadFrame

\* get: self._cache.move_to_end(key), KeyError when the key is gone
GetMoveToEnd(t) ==
    LET k == threads[t].key
    IN  /\ At(t, "get_move_to_end")
        /\ IF k \in DictKeys(cache)
           THEN cache' = MoveToEnd(cache, k) /\ Goto(t, "get_return", threads[t])
           ELSE UNCHANGED cache /\ Raise(t, "KeyError")
        /\ UNCHANGED <<timestamps, hits, misses>>
        /\ CacheThreadFrame

\* get: return self._cache[key], KeyError when the key is gone
GetReturn(t) ==
    /\ At(t, "get_return")
    /\ IF threads[t].key \in DictKeys(cache) THEN Return(t) ELSE Raise(t, "KeyError")
    /\ UNCHANGED <<cache, timestamps, hits, misses>>
    /\ CacheThreadFrame

\* set: if len(self._cache) >= self.max_size and key not in self._cache
SetEnter(t, k, v) ==
    /\ Enter(t, "set")
    /\ Goto(t, IF MustEvict(cache, k) THEN "set_oldest_key" ELSE "set_cache",
            [IdleThread EXCEPT !.key = k, !.value = v])
    /\ UNCHANGED <<cache, timestamps, hits, misses>>
    /\ CacheThreadFrame

\* set: oldest_key = next(iter(self._cache)), StopIteration on an empty dict
SetOldestKey(t) ==
    /\ At(t, "set_oldest_key")
    /\ IF cache = <<>>
       THEN Raise(t, "StopIteration")
       ELSE Goto(t, "set_cache_pop", [threads[t] EXCEPT !.oldest = OldestKey(cache)])
    /\ UNCHANGED <<cache, timestamps, hits, misses>>
    /\ CacheThreadFrame

\* set: self._cache.pop(oldest_key), KeyError when the key is gone
SetCachePop(t) ==
    LET oldest == threads[t].oldest
    IN  /\ At(t, "set_cache_pop")
        /\ IF oldest \in DictKeys(cache)
           THEN cache' = DictPop(cache, oldest) /\ Goto(t, "set_timestamps_pop", threads[t])
           ELSE UNCHANGED cache /\ Raise(t, "KeyError")
        /\ UNCHANGED <<timestamps, hits, misses>>
        /\ CacheThreadFrame

\* set: self._timestamps.pop(oldest_key), KeyError when the key is gone
SetTimestampsPop(t) ==
    LET oldest == threads[t].oldest
    IN  /\ At(t, "set_timestamps_pop")
        /\ IF oldest \in DOMAIN timestamps
           THEN timestamps' = TsPop(timestamps, oldest) /\ Goto(t, "set_cache", threads[t])
           ELSE UNCHANGED timestamps /\ Raise(t, "KeyError")
        /\ UNCHANGED <<cache, hits, misses>>
        /\ CacheThreadFrame

\* set: self._cache[key] = value
SetCache(t) ==
    /\ At(t, "set_cache")
    /\ cache' = DictSet(cache, threads[t].key, threads[t].value)
    /\ Goto(t, "set_timestamps", threads[t])
    /\ UNCHANGED <<timestamps, hits, misses>>
    /\ CacheThreadFrame

\* set: self._timestamps[key] = datetime.now()
SetTimestamps(t) ==
    /\ At(t, "set_timestamps")
    /\ timestamps' = TsSet(timestamps, threads[t].key, now)
    /\ Goto(t, "set_move_to_end", threads[t])
    /\ UNCHANGED <<cache, hits, misses>>
    /\ CacheThreadFrame

\* set: self._cache.move_to_end(key), KeyError when the key is gone; then the
\* periodic save, which returns at once without a cache_dir
SetMoveToEnd(t) ==
    LET k == threads[t].key
    IN  /\ At(t, "set_move_to_end")
        /\ ~cache_dir
        /\ IF k \in DictKeys(cache)
           THEN cache' = MoveToEnd(cache, k) /\ Return(t)
           ELSE UNCHANGED cache /\ Raise(t, "KeyError")
        /\ UNCHANGED <<timestamps, hits, misses>>
        /\ CacheThreadFrame

\* clear: self._cache.clear()
ClearEnter(t) ==
    /\ Enter(t, "clear")
    /\ cache' = Cleared.cache
    /\ Goto(t, "clear_timestamps", IdleThread)
    /\ UNCHANGED <<timestamps, hits, misses>>
    /\ CacheThreadFrame

\* clear: self._timestamps.clear(); self.hits = 0; self.misses = 0; the save
\* returns at once without a cache_dir
ClearTimestamps(t) ==
    /\ At(t, "clear_timestamps")
    /\ ~cache_dir
    /\ timestamps' = Cleared.timestamps
    /\ hits' = Cleared.hits
    /\ misses' = Cleared.misses
    /\ Return(t)
    /\ UNCHANGED cache
    /\ CacheThreadFrame

\* stats: the sweep, then the reads of the returned dict
StatsEnter(t) ==
    LET swept == CleanupExpired(cache, timestamps, now)
    IN  /\ Enter(t, "stats")
        /\ cache' = swept.cache
        /\ timestamps' = swept.timestamps
        /\ Return(t)
        /\ UNCHANGED <<hits, misses>>
        /\ CacheThreadFrame

\* datetime.now() advances while threads run
ThreadTick ==
    /\ now < ThreadMaxTime
    /\ now' = now + 1
    /\ UNCHANGED <<cacheVars, diskVars, obsVars, limiterVars, threadVars>>

NextCacheThreads ==
    \/ ThreadTick
    \/ \E t \in Threads, k \in PersistKeys : GetEnter(t, k)
    \/ \E t \in Threads : GetLoadCounter(t)
    \/ \E t \in Threads : GetStoreCounter(t)
    \/ \E t \in Threads : GetMoveToEnd(t)
    \/ \E t \in Threads : GetReturn(t)
    \/ \E t \in Threads, k \in PersistKeys, v \in Values : SetEnter(t, k, v)
    \/ \E t \in Threads : SetOldestKey(t)
    \/ \E t \in Threads : SetCachePop(t)
    \/ \E t \in Threads : SetTimestampsPop(t)
    \/ \E t \in Threads : SetCache(t)
    \/ \E t \in Threads : SetTimestamps(t)
    \/ \E t \in Threads : SetMoveToEnd(t)
    \/ \E t \in Threads : ClearEnter(t)
    \/ \E t \in Threads : ClearTimestamps(t)
    \/ \E t \in Threads : StatsEnter(t)

\* one cache without a store, created empty, shared by the threads
SpecCacheThreads == Init /\ [][NextCacheThreads]_vars

\* ---------------------------------------- RateLimiter called from threads
\* No lock here either. A list comprehension is taken as one statement; the
\* iteration of cleanup_old_clients over self.requests.items() is two (the
\* iterator is created, then it runs), because the dict iterator raises
\* RuntimeError when the dict changed size in between.
LimiterThreadFrame ==
    UNCHANGED <<now, cacheVars, diskVars, obsVars, max_requests, window, limits_per_tier>>

\* is_allowed: now = datetime.now(); the tier's limits; the pruned list is built
\* (reading self.requests[client_id] creates a missing record)
AllowEnter(t, c, tier) ==
    /\ Enter(t, "is_allowed")
    /\ requests' = PutRecord(c, Record(c))
    /\ Goto(t, "allow_assign",
            [IdleThread EXCEPT !.key = c, !.tier = tier, !.at = now,
                               !.rec = Prune(Record(c), now, Policy(tier).window)])
    /\ UNCHANGED log
    /\ LimiterThreadFrame

\* is_allowed: self.requests[client_id] = the pruned list
AllowAssign(t) ==
    /\ At(t, "allow_assign")
    /\ requests' = PutRecord(threads[t].key, threads[t].rec)
    /\ Goto(t, "allow_test", threads[t])
    /\ UNCHANGED log
    /\ LimiterThreadFrame

\* is_allowed: if len(self.requests[client_id]) < max_requests, else return False
AllowTest(t) ==
    LET c == threads[t].key
        tier == threads[t].tier
        ok == UnderLimit(Len(Record(c)), Policy(tier).max_requests)
        pruned == threads[t].rec
    IN  /\ At(t, "allow_test")
        /\ requests' = PutRecord(c, Record(c))
        /\ IF ok
           THEN Goto(t, "allow_append", threads[t]) /\ UNCHANGED log
           ELSE /\ Return(t)
                /\ log' = [log EXCEPT ![c] = Append(@,
                              [at |-> threads[t].at, tier |-> tier, ok |-> FALSE,
                               oldest |-> IF pruned = <<>> THEN threads[t].at
                                          ELSE pruned[1]])]
        /\ LimiterThreadFrame

\* is_allowed: self.requests[client_id].append(now); return True
AllowAppend(t) ==
    LET c == threads[t].key
        pruned == threads[t].rec
    IN  /\ At(t, "allow_append")
        /\ requests' = PutRecord(c, Recorded(Record(c), threads[t].at, TRUE))
        /\ Return(t)
        /\ log' = [log EXCEPT ![c] = Append(@,
                      [at |-> threads[t].at, tier |-> threads[t].tier, ok |-> TRUE,
                       oldest |-> IF pruned = <<>> THEN threads[t].at ELSE pruned[1]])]
        /\ LimiterThreadFrame

\* cleanup_old_clients: now, cutoff, and the iterator over self.requests.items()
\* is created (it remembers the dict's size); one sweep runs at a time
CleanupEnter(t, h) ==
    /\ Enter(t, "cleanup_old_clients")
    /\ \A u \in Threads : threads[u].pc \notin {"cleanup_scan", "cleanup_del"}
    /\ Goto(t, "cleanup_scan",
            [IdleThread EXCEPT !.at = now - h * SecondsPerHour,
                               !.n = Cardinality(DOMAIN requests)])
    /\ UNCHANGED <<requests, log>>
    /\ LimiterThreadFrame

\* cleanup_old_clients: the comprehension runs: RuntimeError when the dict
\* changed size since the iterator was created, else inactive_clients
CleanupScan(t) ==
    /\ At(t, "cleanup_scan")
    /\ IF Cardinality(DOMAIN requests) # threads[t].n
       THEN Raise(t, "RuntimeError")
       ELSE Goto(t, "cleanup_del",
                 [threads[t] EXCEPT !.keys =
                     {c \in DOMAIN requests : Inactive(requests[c], threads[t].at)}])
    /\ UNCHANGED <<requests, log>>
    /\ LimiterThreadFrame

\* cleanup_old_clients: for client_id in inactive_clients: del self.requests[client_id]
CleanupDel(t) ==
    /\ At(t, "cleanup_del")
    /\ requests' = [c \in DOMAIN requests \ threads[t].keys |-> requests[c]]
    /\ Return(t)
    /\ UNCHANGED log
    /\ LimiterThreadFrame

NextLimiterThreads ==
    \/ ThreadTick
    \/ \E t \in Threads, c \in Clients, tier \in Tiers : AllowEnter(t, c, tier)
    \/ \E t \in Threads : AllowAssign(t)
    \/ \E t \in Threads : AllowTest(t)
    \/ \E t \in Threads : AllowAppend(t)
    \/ \E t \in Threads, h \in 0..MaxAgeHours : CleanupEnter(t, h)
    \/ \E t \in Threads : CleanupScan(t)
    \/ \E t \in Threads : CleanupDel(t)

\* one limiter shared by the threads
SpecLimiterThreads == InitLimiter /\ [][NextLimiterThreads]_vars

\* ------------------------------------------------------------------ claims
\* C1: get(k) returns the value of the latest set(k, v) that was not evicted
\* or cleared since, as long as now - (time of that set) <= ttl, and None once
\* now - (time of that set) > ttl; a key with no such set (never set, evicted
\* or cleared) yields None.
C1_GetHonoursTtl ==
    op.name = "get" =>
        LET w == written[op.key]
        IN  IF Live(w) /\ now - w.at <= ttl
            THEN op.result = w.value
            ELSE op.result = None

\* a get at exactly now - t0 = ttl that returned the written value
C1_Witness ==
    /\ op.name = "get"
    /\ Live(written[op.key])
    /\ now - written[op.key].at = ttl
    /\ op.result = written[op.key].value

\* a step that sets a key that is not stored, on a cache holding max_size
\* entries, removes the first key of recency and nothing else
C2_SetEvicts ==
    (/\ op'.name = "set"
     /\ op'.key \notin DictKeys(cache)
     /\ Len(cache) = max_size)
    => LET lru == recency[1]
           rest == DictKeys(cache) \ {lru}
       IN  /\ lru \in DictKeys(cache)
           /\ DictKeys(cache') = rest \cup {op'.key}
           /\ DOMAIN timestamps' = rest \cup {op'.key}
           /\ \A k \in rest : /\ DictGet(cache', k) = DictGet(cache, k)
                              /\ timestamps'[k] = timestamps[k]

\* C2: a set of a key that is not stored, on a cache holding max_size entries,
\* removes exactly the least-recently-used entry (recency = latest set or get
\* hit) and leaves every other entry's value and timestamp as they were.
C2_EvictsLeastRecentlyUsed == [][C2_SetEvicts]_vars

\* a set evicted a key that had been set later than a key that stays: the get
\* hit on the older key had made the younger one the least recently used
C2_Witness ==
    /\ op.name = "set"
    /\ Len(cache) = max_size
    /\ \E k \in Keys, k2 \in DictKeys(cache) \ {op.key} :
          /\ written[k].status = "evicted"
          /\ Live(written[k2])
          /\ written[k2].at < written[k].at

\* C3: the number of stored entries never exceeds max_size.
C3_SizeBounded == Len(cache) <= max_size

\* a full cache right after a set that evicted
C3_Witness ==
    /\ op.name = "set"
    /\ Len(cache) = max_size
    /\ \E k \in Keys : written[k].status = "evicted"
    /\ \A k \in DictKeys(cache) : Live(written[k])

\* what one step may do to the counters
C4_CountersStep ==
    /\ op'.name = "get" =>
          IF op'.result # None
          THEN hits' = hits + 1 /\ misses' = misses
          ELSE hits' = hits /\ misses' = misses + 1
    /\ op'.name \in {"set", "stats", "tick"} => hits' = hits /\ misses' = misses
    /\ (hits' < hits \/ misses' < misses) => op'.name = "clear"

\* C4: a get adds 1 to hits when it returns a value and 1 to misses when it
\* returns None, and leaves the other counter alone; set and stats change
\* neither; only clear lowers a counter; so hits + misses is the number of get
\* calls since the last clear (or since construction).
C4_HitsPlusMisses == [][C4_CountersStep]_vars /\ [](hits + misses = gets)

\* a get after hits and misses were both counted
C4_Witness ==
    /\ op.name = "get"
    /\ hits >= 1
    /\ misses >= 1
    /\ gets = hits + misses

\* C5: right after clear the cache is empty and hits = misses = 0, and get of
\* a key that was set before the clear and not since returns None.
C5_ClearResets ==
    /\ op.name = "clear" =>
          /\ Len(cache) = 0
          /\ DOMAIN timestamps = {}
          /\ hits = 0
          /\ misses = 0
    /\ (op.name = "get" /\ written[op.key].status = "cleared") => op.result = None

\* a get of a cleared key while a key set after the clear is stored
C5_Witness ==
    /\ op.name = "get"
    /\ written[op.key].status = "cleared"
    /\ op.result = None
    /\ \E k \in DictKeys(cache) : Live(written[k])

\* what C6 promises of a construction: every value the replaced instance wrote
\* by set (not evicted or cleared since) and that has not expired is served by
\* the new instance, and the counters carry over
C6_Restored ==
    /\ \A k \in Keys :
          (Live(written[k]) /\ now - written[k].at <= ttl) =>
              /\ k \in DictKeys(cache')
              /\ k \in DOMAIN timestamps'
              /\ DictGet(cache', k) = written[k].value
    /\ hits' = hits
    /\ misses' = misses

\* C6 as claimed: a new instance constructed over the same store at any point
\* after a set returned serves the written value (unless expired) and starts
\* with the old instance's hits and misses.
C6_RestoredAtAnyPoint == [][op'.name = "init" => C6_Restored]_vars

\* C6 as amended: the same, for a new instance constructed after the old one
\* was finalized and its last save wrote both artefacts.
C6_RestoredAfterFlush == [][(op'.name = "init" /\ flushed) => C6_Restored]_vars

\* a get on a new instance returned a value that only the replaced instance
\* had set, with a counter carried over from it
C6_Witness ==
    /\ op.name = "get"
    /\ op.result # None
    /\ written[op.key].status = "never"
    /\ gets = 1
    /\ hits = 1
    /\ misses = 0

\* the timestamps of rec that are younger than w at the present time
Young(rec, w) == SelectSeq(rec, LAMBDA ts : now - ts < w)

\* the answer of an is_allowed step, from the record before the step
C7_Step ==
    op'.name = "is_allowed" =>
        LET c == op'.key
            pol == Policy(op'.tier)
        IN  op'.ok = (Len(Young(Record(c), pol.window)) < pol.max_requests)

\* the answers to a client's calls while they all fall within W of its first
C7_FirstCalls ==
    \A c \in Clients :
        LET h == log[c]
        IN  (/\ h # <<>>
             /\ \A i \in DOMAIN h : /\ Policy(h[i].tier) = Policy(h[1].tier)
                                    /\ h[i].at - h[1].at < Policy(h[1].tier).window)
            => \A i \in DOMAIN h : h[i].ok = (i <= Policy(h[1].tier).max_requests)

\* C7: is_allowed admits exactly when fewer than max_requests of the client's
\* recorded timestamps are younger than the window; so of the calls a client
\* without a record makes under one effective policy (M, W) within W of the
\* first, the first M are admitted and every later one is denied.
C7_AdmitsUnderLimit == [][C7_Step]_vars /\ []C7_FirstCalls

\* the (M+1)-th call within W of the first was denied
C7_Witness ==
    \E c \in Clients :
        LET h == log[c]
        IN  /\ op.name = "is_allowed"
            /\ op.key = c
            /\ Len(h) = Policy(h[1].tier).max_requests + 1
            /\ \A i \in DOMAIN h : /\ h[i].tier = h[1].tier
                                   /\ h[i].at - h[1].at < Policy(h[1].tier).window
            /\ ~h[Len(h)].ok
            /\ h[Len(h)].at > h[1].at

OneTier(h) == \A i \in DOMAIN h : h[i].tier = h[1].tier

Admitted(h) == SelectSeq(h, LAMBDA e : e.ok)

\* C8: for a client checked under one tier only, with policy (M, W), the
\* (k+M)-th admitted call is at least W later than the k-th.
C8_SlidingWindow ==
    \A c \in Clients :
        LET h == log[c]
            adm == Admitted(h)
        IN  (h # <<>> /\ OneTier(h)) =>
                LET pol == Policy(h[1].tier)
                IN  \A k \in DOMAIN adm :
                        (k + pol.max_requests) \in DOMAIN adm =>
                            adm[k + pol.max_requests].at - adm[k].at >= pol.window

\* more than M calls of one client were admitted, with a denial among its calls
C8_Witness ==
    \E c \in Clients :
        LET h == log[c]
        IN  /\ h # <<>>
            /\ OneTier(h)
            /\ Len(Admitted(h)) > Policy(h[1].tier).max_requests
            /\ \E i \in DOMAIN h : ~h[i].ok

\* what a denied is_allowed step leaves behind
C9_Step ==
    (op'.name = "is_allowed" /\ ~op'.ok) =>
        LET c == op'.key
            w == Policy(op'.tier).window
        IN  /\ c \in DOMAIN requests'
            /\ Young(requests'[c], w) = Young(Record(c), w)
            /\ Len(requests'[c]) <= Len(Record(c))
            /\ \A d \in Clients \ {c} :
                  /\ d \in DOMAIN requests' <=> d \in DOMAIN requests
                  /\ d \in DOMAIN requests => requests'[d] = requests[d]

\* C9: a denied is_allowed records nothing: the client's in-window timestamps
\* are the same after the call as before it, its record gains no entry, and no
\* other client's record is created, removed or changed.
C9_DenialRecordsNothing == [][C9_Step]_vars

\* a call was denied while another client has recorded requests
C9_Witness ==
    /\ op.name = "is_allowed"
    /\ ~op.ok
    /\ \E d \in DOMAIN requests : d # op.key /\ requests[d] # <<>>
    /\ Len(requests[op.key]) = Policy(op.tier).max_requests

\* the pre-state of an is_allowed(c, tier) step that C10 speaks about: an
\* earlier call of the client was denied under the same tier, only denied
\* calls followed it, and W has passed since the oldest request that was
\* inside the window at that denial
C10_Due(c, tier) ==
    LET h == log[c]
        pol == Policy(tier)
    IN  /\ pol.max_requests >= 1
        /\ \E i \in DOMAIN h :
              /\ h[i].tier = tier
              /\ \A j \in i..Len(h) : ~h[j].ok
              /\ now - h[i].oldest >= pol.window

\* C10 as claimed: after is_allowed denied a client under a tier with policy
\* (M >= 1, W), a call for that client under the same tier made at least W
\* after the oldest in-window request of that denial, with only denied calls
\* in between, is admitted.
C10_AdmittedAfterWindow ==
    [][(op'.name = "is_allowed" /\ C10_Due(op'.key, op'.tier))
        => op'.ok]_vars

\* C10 as amended: the same, for a client that was only ever checked under
\* that one tier.
C10_AdmittedAfterWindowOneTier ==
    [][(/\ op'.name = "is_allowed"
        /\ C10_Due(op'.key, op'.tier)
        /\ \A i \in DOMAIN log[op'.key] : log[op'.key][i].tier = op'.tier)
        => op'.ok]_vars

\* a client of one tier was denied and, W after the oldest request of that
\* denial's window, admitted again
C10_Witness ==
    \E c \in Clients :
        LET h == log[c]
            n == Len(h)
        IN  /\ n >= 3
            /\ OneTier(h)
            /\ op.name = "is_allowed"
            /\ op.key = c
            /\ h[n].ok
            /\ ~h[n - 1].ok
            /\ h[n].at - h[n - 1].oldest >= Policy(h[n].tier).window

\* C11: get_stats leaves the mapping from client id to timestamps as it was,
\* for a client with a record and for a client without one: no record is
\* created, pruned or removed.
C11_GetStatsReadOnly == [][op'.name = "get_stats" => requests' = requests]_vars

\* the (max_requests, window) C12 expects for a tier: the override table's
\* entry when the tier is listed, the defaults otherwise
C12_Quota(tier) ==
    IF tier \in DOMAIN limits_per_tier
    THEN limits_per_tier[tier]
    ELSE <<max_requests, window>>

\* is_allowed answers by the expected quota and get_stats reports it
C12_Step ==
    LET c == op'.key
        q == C12_Quota(op'.tier)
        inside == Len(Young(Record(c), q[2]))
    IN  /\ op'.name = "is_allowed" => op'.ok = (inside < q[1])
        /\ op'.name = "get_stats" =>
              /\ op'.stats[1] = inside
              /\ op'.stats[2] = q[1]
              /\ op'.stats[3] = q[2]
              /\ op'.stats[4] = (IF q[1] > inside THEN q[1] - inside ELSE 0)
        /\ op'.name \in {"is_allowed", "get_stats"} => op'.result = None

\* a client checked only under a listed tier whose limit exceeds the default,
\* all calls within that tier's window of the first: the first M_tier calls
\* are admitted
C12_FreshListed ==
    \A c \in Clients :
        LET h == log[c]
        IN  (/\ h # <<>>
             /\ OneTier(h)
             /\ h[1].tier \in DOMAIN limits_per_tier
             /\ limits_per_tier[h[1].tier][1] > max_requests
             /\ \A i \in DOMAIN h : h[i].at - h[1].at < limits_per_tier[h[1].tier][2])
            => \A i \in DOMAIN h : i <= limits_per_tier[h[1].tier][1] => h[i].ok

\* C12: is_allowed and get_stats use the (max_requests, window) of the tier's
\* entry in limits_per_tier when the tier is listed and the defaults
\* otherwise; neither raises for an unlisted tier; a listed tier whose limit
\* exceeds the default admits a fresh client's calls up to its own limit
\* within its own window.
C12_TierOverride == [][C12_Step]_vars /\ []C12_FreshListed

\* a client of a listed tier was admitted more often than the default allows,
\* at a time the default window had already been left
C12_Witness ==
    \E c \in Clients :
        LET h == log[c]
        IN  /\ op.name = "is_allowed"
            /\ op.key = c
            /\ op.tier \in DOMAIN limits_per_tier
            /\ OneTier(h)
            /\ Len(h) > max_requests
            /\ \A i \in DOMAIN h : h[i].ok
            /\ h[Len(h)].at - h[1].at < limits_per_tier[op.tier][2]
            /\ h[Len(h)].at - h[1].at >= window

\* what a cleanup_old_clients(h) step leaves of the records
C13_Step ==
    op'.name = "cleanup_old_clients" =>
        LET cutoff == now - op'.stats[1] * SecondsPerHour
        IN  \A c \in Clients :
                /\ c \in DOMAIN requests' <=>
                      /\ c \in DOMAIN requests
                      /\ requests[c] # <<>>
                      /\ \E i \in DOMAIN requests[c] : requests[c][i] >= cutoff
                /\ c \in DOMAIN requests' => requests'[c] = requests[c]

\* C13: after cleanup_old_clients(h) at time now, a client record is present
\* exactly when it was present before, is non-empty and its most recent
\* timestamp is not older than now - h hours; the kept records are unchanged.
C13_CleanupKeepsRecent == [][C13_Step]_vars

\* a sweep removed a client that had been admitted and kept a client whose
\* newest timestamp is exactly now - h hours
C13_Witness ==
    /\ op.name = "cleanup_old_clients"
    /\ \E c \in Clients : /\ c \notin DOMAIN requests
                          /\ \E i \in DOMAIN log[c] : log[c][i].ok
    /\ \E d \in DOMAIN requests :
          /\ requests[d] # <<>>
          /\ Newest(requests[d]) = now - op.stats[1] * SecondsPerHour

\* every thread is between calls
Quiescent == \A t \in Threads : threads[t].pc = "idle"

\* C14: with get, set, clear and stats of one cache called from several
\* threads, no call raises, the size never exceeds max_size, and once every
\* call has returned entries and timestamps have the same keys and (when no
\* clear was called) hits + misses is the number of get calls, as after the
\* calls in some serial order.
C14_ThreadSafe ==
    /\ \A t \in Threads : threads[t].raised = None
    /\ Len(cache) <= max_size
    /\ Quiescent =>
          /\ DictKeys(cache) = DOMAIN timestamps
          /\ begun["clear"] = 0 => hits + misses = begun["get"]

\* the admitted calls of h whose time lies in [from, from + w)
AdmittedWithin(h, from, w) ==
    SelectSeq(h, LAMBDA e : e.ok /\ e.at >= from /\ e.at - from < w)

\* C15: with is_allowed called from several threads (and no sweep) for a
\* client checked under one tier with policy (M, W), at most M calls are
\* admitted within any span shorter than W, and once every call has returned
\* the client's record holds the timestamp of every admitted call that is
\* still inside the window.
C15_ConcurrentAdmission ==
    begun["cleanup_old_clients"] = 0 =>
        \A c \in Clients :
            LET h == log[c]
            IN  (h # <<>> /\ OneTier(h)) =>
                    LET pol == Policy(h[1].tier)
                    IN  /\ \A i \in DOMAIN h :
                              Len(AdmittedWithin(h, h[i].at, pol.window))
                                  <= pol.max_requests
                        /\ Quiescent =>
                              Len(Young(Record(c), pol.window))
                                  >= Len(AdmittedWithin(h, now - pol.window + 1,
                                                        pol.window))

\* C16: with cleanup_old_clients running beside is_allowed calls, no call
\* raises, and once every call has returned the timestamp of every request
\* admitted at the present time (younger than any retention threshold and any
\* window) is in its client's record.
C16_CleanupBesideChecks ==
    /\ \A t \in Threads : threads[t].raised = None
    /\ Quiescent =>
          \A c \in Clients : \A i \in DOMAIN log[c] :
              (log[c][i].ok /\ log[c][i].at = now) =>
                  \E j \in DOMAIN Record(c) : Record(c)[j] = now

\* the snapshot is there and loading it fails at some step
C17_LoadFails ==
    /\ disk_cache.state # "absent"
    /\ disk_meta.state # "absent"
    /\ disk_cache.state # "ok" \/ disk_meta.state # "ok"

\* C17: a construction whose load of the snapshot fails at any step leaves
\* the cache as if there were no snapshot: no entries, no timestamps,
\* hits = 0 and misses = 0 (and does not raise).
C17_FailedLoadStartsEmpty ==
    [][(op'.name = "init" /\ cache_dir /\ C17_LoadFails) =>
          /\ op'.result = None
          /\ cache' = <<>>
          /\ timestamps' = EmptyDict
          /\ hits' = 0
          /\ misses' = 0]_vars

\* the step ran _save_to_disk and the store does not hold the state it tried
\* to write
C18_SaveFailed ==
    /\ cache_dir
    /\ \/ op'.name \in {"clear", "del"}
       \/ op'.name = "set" /\ op'.result # "KeyError" /\ Len(cache') % SaveEvery = 0
    /\ ~ (/\ disk_cache' = Stored(cache')
          /\ disk_meta' = Stored(Meta(timestamps', hits', misses')))

\* the memory a set(k, v) leaves when nothing fails
C18_AfterSet(k) ==
    LET rest == DictPop(cache', k)
    IN  /\ cache'[Len(cache')] = [key |-> k, value |-> written'[k].value]
        /\ rest = (IF k \in DictKeys(cache) \/ Len(cache) < max_size
                   THEN DictPop(cache, k) ELSE Tail(cache))
        /\ DOMAIN timestamps' = DictKeys(cache')
        /\ timestamps'[k] = now
        /\ \A x \in DictKeys(rest) : timestamps'[x] = timestamps[x]
        /\ hits' = hits
        /\ misses' = misses

\* C18: a set, clear or __del__ whose write of the snapshot fails returns
\* normally, and leaves the entries, their order, the timestamps and the
\* counters as the call leaves them when the write succeeds.
C18_SaveFailureIsSilent ==
    [][C18_SaveFailed =>
          /\ op'.result = None
          /\ op'.name = "set" => C18_AfterSet(op'.key)
          /\ op'.name = "clear" => /\ cache' = <<>>
                                   /\ timestamps' = EmptyDict
                                   /\ hits' = 0
                                   /\ misses' = 0
          /\ op'.name = "del" => UNCHANGED <<cache, timestamps, hits, misses>>]_vars

\* a set that reached the periodic save returned after cache.pkl was written
\* and cache_meta.json was not
C18_Witness ==
    /\ op.name = "set"
    /\ Len(cache) = SaveEvery
    /\ Live(written[op.key])
    /\ disk_cache = Stored(cache)
    /\ disk_meta.state # "ok"
    /\ cache[Len(cache)].key = op.key

\* the exceptions a call of the cache or the limiter can end with
Exceptions == {"KeyError", "StopIteration", "RuntimeError", "TypeError", "OSError"}

\* C19: in every reachable state, also one loaded from a snapshot that an
\* interrupted or partly failed save left behind, a call that raises has left
\* the entries, the timestamps, the counters and the limiter's records
\* unchanged.
C19_RaisesOnlyUnchanged ==
    [][op'.result \in Exceptions =>
          UNCHANGED <<cache, timestamps, hits, misses, requests>>]_vars

\* C20 as claimed: a get hit at time t1 sets the entry's timestamp to t1, as a
\* set overwrite at t1 does.
C20_GetRefreshesTimestamp ==
    [][((op'.name = "get" /\ op'.result # None) \/ op'.name = "set") =>
          timestamps'[op'.key] = now]_vars

\* C20 as amended: a get hit makes the entry the most recently used and
\* leaves its timestamp at the time of the latest set; only a set puts the
\* timestamp at the present time.
C20_GetKeepsTimestamp ==
    [][/\ (op'.name = "get" /\ op'.result # None) =>
             /\ timestamps'[op'.key] = timestamps[op'.key]
             /\ timestamps'[op'.key] = written[op'.key].at
             /\ cache'[Len(cache')].key = op'.key
       /\ op'.name = "set" =>
             /\ timestamps'[op'.key] = now
             /\ cache'[Len(cache')].key = op'.key]_vars

\* a get hit moved an entry behind one that was set later, and the entry's
\* timestamp is still older than the clock
C20_Witness ==
    /\ op.name = "get"
    /\ op.result # None
    /\ Len(cache) = 2
    /\ cache[2].key = op.key
    /\ timestamps[op.key] < now
    /\ timestamps[cache[1].key] > timestamps[op.key]

\* ---------------------------------------------------------------------
\* C21: with persistence configured, set writes the full snapshot on every
\* 10th write, so at most 9 completed set calls are missing from the durable
\* snapshot. While no snapshot has been written every completed set call is
\* missing from it.
C21_AtMostNineMissing ==
    (cache_dir /\ disk_cache.state = "absent") => begun["set"] <= SaveEvery - 1

\* ---------------------------------------------------------------------
\* C22: on application shutdown the cache's current state is flushed to the
\* durable snapshot: when the shutdown's write succeeds, every entry that is
\* unexpired at the shutdown is loaded, with its value, by a start over the
\* same store at that time.
C22_Written ==
    /\ disk_cache = Stored(cache)
    /\ disk_meta = Stored(Meta(timestamps, hits, misses))

C22_Step ==
    (op'.name = "shutdown" /\ C22_Written') =>
        \A k \in DictKeys(cache) \cap DOMAIN timestamps :
            ~IsExpired(timestamps[k], now) =>
                /\ k \in DictKeys(LoadFromDisk(now)'.cache)
                /\ DictGet(LoadFromDisk(now)'.cache, k) = DictGet(cache, k)

C22_ShutdownFlushes == [][C22_Step]_vars

\* ---------------------------------------------------------------------
\* C23: with persistence configured, a key removed by LRU eviction and never
\* set again can be returned by get on a new instance after a crash and
\* restart, because the last snapshot written before the crash still holds
\* it: the instance constructed after a crash holds, with the snapshot's
\* value, every key the killed instance had evicted and the snapshot holds
\* unexpired; and whenever get returns the value of a key whose latest fate
\* is eviction, the snapshot holds the key with that value.
C23_InSnapshot(k) ==
    /\ disk_cache.state = "ok"
    /\ disk_meta.state = "ok"
    /\ k \in DictKeys(disk_cache.data)
    /\ k \in DOMAIN disk_meta.data.timestamps

C23_Resurrected(k) ==
    /\ op.name = "get"
    /\ op.key = k
    /\ op.result # None
    /\ written[k].status = "evicted"

C23_ResurrectedFromSnapshot ==
    \A k \in Keys :
        /\ (/\ op.name = "init"
            /\ written[k].status = "evicted"
            /\ C23_InSnapshot(k)
            /\ ~IsExpired(disk_meta.data.timestamps[k], now))
               => (k \in DictKeys(cache) /\ DictGet(cache, k) = DictGet(disk_cache.data, k))
        /\ C23_Resurrected(k)
               => (C23_InSnapshot(k) /\ DictGet(disk_cache.data, k) = op.result)

C23_Witness == \E k \in Keys : C23_Resurrected(k) /\ alive

\* ---------------------------------------------------------------------
\* C24: in a transcript request the steps come in the order limiter check,
\* cache get, upstream fetch (only on a miss), cache set (only after a
\* successful fetch, under the key that missed). A request the limiter
\* denies ends there, with the cache untouched; a cache get is made only by
\* a request that passed check_rate_limit and ends the request on a hit; a
\* fetch is made only by a request whose get missed; a set is made only by a
\* request whose fetch succeeded, with its key and the fetched value.
C24_Moved(t, from, to) == threads[t].pc = from /\ threads'[t].pc = to

C24_Step ==
    /\ op'.name = "is_allowed" =>
          /\ UNCHANGED <<cacheVars, diskVars>>
          /\ \E t \in Threads :
                IF op'.ok THEN C24_Moved(t, "idle", "endpoint")
                ELSE C24_Moved(t, "idle", "idle") /\ threads'[t].raised = "HTTPException"
    /\ \A t \in Threads :
          (threads[t].pc # "endpoint" /\ threads'[t].pc = "endpoint") =>
              /\ threads[t].pc = "idle"
              /\ (op'.name = "is_allowed" /\ op'.ok) \/ op'.name = "master"
    /\ op'.name = "get" =>
          \E t \in Threads :
              /\ threads[t].key = op'.key
              /\ IF op'.result = None THEN C24_Moved(t, "endpoint", "fetch")
                 ELSE C24_Moved(t, "endpoint", "idle")
              /\ threads'[t].key = IF op'.result = None THEN op'.key ELSE None
    /\ op'.name = "fetch" =>
          /\ UNCHANGED <<cacheVars, diskVars>>
          /\ \E t \in Threads :
                /\ threads[t].key = op'.key
                /\ IF op'.result \in Values
                   THEN /\ C24_Moved(t, "fetch", "store")
                        /\ threads'[t].key = op'.key
                        /\ threads'[t].value = op'.result
                   ELSE C24_Moved(t, "fetch", "idle")
    /\ op'.name = "set" =>
          \E t \in Threads :
              /\ C24_Moved(t, "store", "idle")
              /\ threads[t].key = op'.key
              /\ DictGet(cache', op'.key) = threads[t].value
    /\ (cache' # cache \/ hits' # hits \/ misses' # misses) => op'.name \in {"get", "set"}

C24_RequestOrder == [][C24_Step]_vars

\* a request went all the way: admitted, missed, fetched, stored
C24_Witness ==
    /\ op.name = "set"
    /\ misses > 0
    /\ \E c \in Clients : \E i \in DOMAIN log[c] : log[c][i].ok

\* ---------------------------------------------------------------------
\* a step that sets a key that is stored keeps every other entry as it was
\* and leaves the key with the value written, the time of the call as its
\* timestamp, and the last (most recently used) position
C25_Step ==
    (op'.name = "set" /\ op'.key \in DictKeys(cache)) =>
        LET k == op'.key
        IN  /\ DictKeys(cache') = DictKeys(cache)
            /\ Len(cache') = Len(cache)
            /\ DOMAIN timestamps' = DOMAIN timestamps \cup {k}
            /\ \A x \in DictKeys(cache) \ {k} :
                  /\ DictGet(cache', x) = DictGet(cache, x)
                  /\ x \in DOMAIN timestamps => timestamps'[x] = timestamps[x]
            /\ DictGet(cache', k) = written'[k].value
            /\ timestamps'[k] = now
            /\ cache'[Len(cache')].key = k
            /\ recency'[Len(recency')] = k

\* C25: set(k, v) on a key already present removes no entry, even when the
\* cache holds max_size entries; afterwards k maps to v, its timestamp is the
\* time of the call, and it is the most recently used entry.
C25_SetExistingKeepsAll == [][C25_Step]_vars

\* a full cache right after a set of the only key it ever held: that key had
\* been hit, and at time 0 nothing has expired
C25_Witness ==
    /\ op.name = "set"
    /\ now = 0
    /\ hits > 0
    /\ Len(cache) = max_size
    /\ \A k \in Keys \ {op.key} : written[k].status = "never"

\* ---------------------------------------------------------------------
\* C26 as stated: set never evicts an unexpired entry while the cache still
\* holds an entry whose age already exceeds ttl.
C26_StepExpiredFirst ==
    op'.name = "set" =>
        \A x \in DictKeys(cache) \ DictKeys(cache') :
            ~IsExpired(timestamps[x], now) =>
                \A y \in DictKeys(cache') \cap DOMAIN timestamps' :
                    ~IsExpired(timestamps'[y], now)

C26_SetEvictsExpiredFirst == [][C26_StepExpiredFirst]_vars

\* set runs no expiry sweep: of the entries stored before the call only the
\* least recently used one can go, and it goes exactly when the key is new
\* and the cache is full, whatever the ages; every other entry stays with its
\* timestamp, expired or not
C26_Step ==
    op'.name = "set" =>
        LET evicts == Len(cache) >= max_size /\ op'.key \notin DictKeys(cache)
        IN  \A y \in DictKeys(cache) \ {op'.key} :
                IF evicts /\ y = recency[1]
                THEN y \notin DictKeys(cache')
                ELSE y \in DictKeys(cache') /\ timestamps'[y] = timestamps[y]

\* C26, amended: set evicts the least-recently-used entry whether or not it
\* has expired, and removes no other entry, expired or not.
C26_SetEvictsLruWhateverItsAge == [][C26_Step]_vars

\* right after a set: the key it evicted is unexpired even now, and the cache
\* holds an entry whose age exceeds ttl
C26_Witness ==
    /\ op.name = "set"
    /\ written[op.key].at = now
    /\ \E k \in Keys \ DictKeys(cache), y \in DictKeys(cache) :
          /\ written[k].status = "evicted"
          /\ ~IsExpired(written[k].at, now)
          /\ IsExpired(timestamps[y], now)
          /\ \A z \in Keys \ {k, y, op.key} : written[z].status = "never"

\* ---------------------------------------------------------------------
\* the calls of history h admitted under tier
C27_AdmittedUnder(h, tier) == SelectSeq(h, LAMBDA e : e.ok /\ e.tier = tier)

\* at most max_requests of the calls adm lie within any span shorter than window
C27_Bounded(adm, pol) ==
    \A k \in DOMAIN adm :
        (k + pol.max_requests) \in DOMAIN adm =>
            adm[k + pol.max_requests].at - adm[k].at >= pol.window

\* C27 as stated: for every client and tier T, the calls admitted under T
\* within any span shorter than T's window never exceed T's max_requests,
\* whatever calls under other tiers are interleaved for that client.
C27_PerTierBound ==
    \A c \in Clients, tier \in Tiers :
        C27_Bounded(C27_AdmittedUnder(log[c], tier), Policy(tier))

\* C27, amended: the bound holds for tier T of a client whose calls were all
\* made under tiers with a window at least as long as T's (a check under a
\* shorter window prunes the shared record to that shorter window).
C27_PerTierBoundLongerWindows ==
    \A c \in Clients, tier \in Tiers :
        (\A i \in DOMAIN log[c] : Policy(log[c][i].tier).window >= Policy(tier).window)
            => C27_Bounded(C27_AdmittedUnder(log[c], tier), Policy(tier))

\* a client checked under two tiers with different windows is denied under
\* the shorter-window tier although fewer than max_requests of its calls
\* under that tier are inside the window: the calls admitted under the other
\* tier fill the shared record
C27_Witness ==
    /\ op.name = "is_allowed"
    /\ ~op.ok
    /\ \E i \in DOMAIN log[op.key] :
          /\ log[op.key][i].ok
          /\ Policy(log[op.key][i].tier).window > Policy(op.tier).window
    /\ Len(Young([i \in DOMAIN C27_AdmittedUnder(log[op.key], op.tier) |->
                     C27_AdmittedUnder(log[op.key], op.tier)[i].at],
                  Policy(op.tier).window)) < Policy(op.tier).max_requests

\* ---------------------------------------------------------------------
\* C28: a cache constructed over a snapshot that holds more unexpired entries
\* than its own max_size holds at most max_size entries after construction
\* and after every later set.
C28_SizeBoundedAfterLoad == alive => Len(cache) <= max_size

\* ---------------------------------------------------------------------
\* the timestamps of client c that are inside tier's window now, in the
\* records r
C29_Counted(r, c, tier) ==
    Young(IF c \in DOMAIN r THEN r[c] ELSE <<>>, Policy(tier).window)

\* a cleanup step leaves, for every client and tier, the timestamps that
\* is_allowed would count
C29_Kept == \A c \in Clients, tier \in Tiers :
                C29_Counted(requests', c, tier) = C29_Counted(requests, c, tier)

\* C29 as stated: cleanup_old_clients(h) removes, for every h >= 0, no
\* timestamp that is still inside the rate window of its client, so the
\* is_allowed calls that follow answer as they would have without it.
C29_CleanupNeverChangesAdmission ==
    [][op'.name = "cleanup_old_clients" => C29_Kept]_vars

\* C29, amended: the same for every h whose h hours are at least the window
\* of every policy in use.
C29_CleanupOfLongAgeKeepsAdmission ==
    [][(/\ op'.name = "cleanup_old_clients"
        /\ \A tier \in Tiers : op'.stats[1] * SecondsPerHour >= Policy(tier).window)
        => C29_Kept]_vars

\* a sweep with h >= 1 removed the record of a client that had been admitted
C29_Witness ==
    /\ op.name = "cleanup_old_clients"
    /\ op.stats[1] >= 1
    /\ \E c \in Clients :
          /\ c \notin DOMAIN requests
          /\ \E i \in DOMAIN log[c] : log[c][i].ok /\ now - log[c][i].at >= SecondsPerHour

\* ---------------------------------------------------------------------
\* C30: in every state reached by set, get, stats and clear called one after
\* another on a cache created empty, the keys holding a value are the keys
\* holding a timestamp.
C30_SameKeys == DictKeys(cache) = DOMAIN timestamps

\* a cache that holds an entry after one key was evicted and another, set
\* and never evicted or cleared, was removed by the expiry sweep
C30_Witness ==
    /\ cache # <<>>
    /\ \E k \in Keys : written[k].status = "evicted"
    /\ \E k \in Keys \ DictKeys(cache) : Live(written[k])

====
